---- MODULE Spec2Model ----
(***************************************************************************)
(* Model of the semantic-search code of semantic_search.ipynb:             *)
(*   - class SimpleSemanticSearch (__init__, index_documents, search),     *)
(*   - the module-level find_most_similar over the global doc_embeddings.  *)
(* The SentenceTransformer model is an external collaborator; it is        *)
(* modelled by a deterministic table from text to an integer vector and a  *)
(* nondeterministic failure (an exception raised by model.encode).         *)
(*                                                                         *)
(* Scores: a cosine similarity dot(a,b)/(|a||b|) is represented exactly by *)
(* its signed square sgn(dot)*dot^2/(|a|^2 |b|^2), kept as a reduced       *)
(* fraction <<num, den>>. The map cos |-> sgn(cos)*cos^2 is strictly       *)
(* increasing on [-1,1] and fixes -1, 0 and 1, so order, equality of       *)
(* scores and "score = 1.0" are preserved. Floating-point rounding is not  *)
(* modelled.                                                               *)
(***************************************************************************)
EXTENDS Integers, Sequences, FiniteSets, TLC

VARIABLES
    documents,       \* self.documents of the SimpleSemanticSearch instance
    embeddings,      \* self.embeddings of the instance (None or an array)
    ixf,             \* frame of a running index_documents call
    srch,            \* frame of a running search call
    g_documents,     \* module-level list `documents`
    doc_embeddings,  \* module-level array `doc_embeddings`
    last,            \* outcome of the last completed call (what the caller sees)
    indexed          \* history: the most recent index_documents call

vars == <<documents, embeddings, ixf, srch, g_documents, doc_embeddings, last, indexed>>

\* ---------------------------------------------------------------- bounds
\* Longest document sequence handed to index_documents / held in `documents`.
MaxLen == 2
\* Largest top_k a caller passes.
MaxTopK == 2
\* Longest module-level corpus find_most_similar runs on.
MaxCorpus == 3

\* ---------------------------------------------------------------- Embedder
\* Texts used as documents, and the texts used as queries.
DocTexts == {"cat", "cats", "the"}
Texts == DocTexts \cup {"pets"}

\* The Embedder's vector for one text: identical text gives identical vectors.
\* "cat" and "cats" are different texts with parallel vectors, "the" embeds to
\* the zero vector, "pets" is at 45 degrees to "cat".
Vec(text) ==
    CASE text = "cat"  -> <<1, 0>>
      [] text = "cats" -> <<2, 0>>
      [] text = "pets" -> <<1, 1>>
      [] text = "the"  -> <<0, 0>>

\* model.encode(list of texts): one vector per text, in order.
encode(sentences) == [i \in 1..Len(sentences) |-> Vec(sentences[i])]

\* Python's None, where a text is expected.
None == "None"

\* self.embeddings holds None or a numpy array; rows are the array's rows.
NoneArray == [none |-> TRUE, rows |-> <<>>]
ndarray(rows) == [none |-> FALSE, rows |-> rows]

\* All document sequences a caller may pass (the empty list included).
DocSeqs == UNION {[1..n -> DocTexts] : n \in 0..MaxLen}

\* ---------------------------------------------------------------- arithmetic
Abs(x) == IF x < 0 THEN -x ELSE x

RECURSIVE Gcd(_, _)
Gcd(a, b) == IF b = 0 THEN a ELSE Gcd(b, a % b)

\* The reduced fraction n/d, d > 0.
Frac(n, d) ==
    IF n = 0 THEN <<0, 1>>
    ELSE LET g == Gcd(Abs(n), d) IN <<n \div g, d \div g>>

Dot(a, b) == a[1] * b[1] + a[2] * b[2]

Sgn(x) == IF x < 0 THEN -1 ELSE IF x > 0 THEN 1 ELSE 0

\* The scores 1.0 and 0.0.
One == <<1, 1>>
Zero == <<0, 1>>

\* The score of a bare dot product: the normalisation forgotten.
dot_score(a, b) == Frac(Sgn(Dot(a, b)) * Dot(a, b) * Dot(a, b), 1)

\* util.pytorch_cos_sim(a, b).item(): both vectors are normalised (a zero
\* vector stays zero, the norm being clamped from below), then multiplied.
pytorch_cos_sim(a, b) ==
    IF Dot(a, a) = 0 \/ Dot(b, b) = 0 THEN Zero
    ELSE Frac(Sgn(Dot(a, b)) * Dot(a, b) * Dot(a, b), Dot(a, a) * Dot(b, b))

\* s <= t for two scores.
ScoreLe(s, t) == s[1] * t[2] <= t[1] * s[2]

\* ---------------------------------------------------------------- numpy / list helpers
Min(a, b) == IF a < b THEN a ELSE b

\* Positions are 0-based as in the code; TLA+ sequences are 1-based.
At(seq, idx) == seq[idx + 1]

\* [util.pytorch_cos_sim(query_embedding, doc_emb).item() for doc_emb in embs]
Similarities(query_embedding, embs) ==
    [i \in 1..Len(embs) |-> pytorch_cos_sim(query_embedding, embs[i])]

\* np.argsort(similarities): every permutation of 0..n-1 that lists the scores
\* in non-decreasing order. The default sort kind is not stable, so the order
\* of equal scores is any of the orders a build may produce.
argsort(similarities) ==
    LET n == Len(similarities) IN
    {p \in [1..n -> 0..(n - 1)] :
        /\ \A i, j \in 1..n : i # j => p[i] # p[j]
        /\ \A i \in 1..n : i < n => ScoreLe(At(similarities, p[i]), At(similarities, p[i + 1]))}

\* seq[::-1]
Reversed(seq) == [i \in 1..Len(seq) |-> seq[Len(seq) + 1 - i]]

\* seq[:k] for k >= 0: slicing clamps to the length.
Take(seq, k) == SubSeq(seq, 1, Min(k, Len(seq)))

\* The filter comparing against the wrong position.
ExcludeNext(sorted_indices, doc_idx) == SelectSeq(sorted_indices, LAMBDA idx : idx # doc_idx + 1)

\* [idx for idx in sorted_indices if idx != doc_idx]
Exclude(sorted_indices, doc_idx) == SelectSeq(sorted_indices, LAMBDA idx : idx # doc_idx)

\* ---------------------------------------------------------------- outcomes
\* What a completed call hands to its caller: the value returned, or the
\* exception raised. top_indices is the call's local of that name.
Outcome(op, status, query, doc_idx, top_k, result, top_indices) ==
    [op |-> op, status |-> status, query |-> query, doc_idx |-> doc_idx,
     top_k |-> top_k, result |-> result, top_indices |-> top_indices]

NoCall == Outcome("none", "ok", None, 0, 0, <<>>, <<>>)

Raised(op, error, query, doc_idx, top_k) ==
    Outcome(op, error, query, doc_idx, top_k, <<>>, <<>>)

IdleIndex == [pc |-> "idle", documents |-> <<>>]
IdleSearch == [pc |-> "idle", query |-> None, top_k |-> 0,
               similarities |-> <<>>, top_indices |-> <<>>, result |-> <<>>]

\* ---------------------------------------------------------------- SimpleSemanticSearch
\* __init__: self.documents = [], self.embeddings = None.
InitIndex ==
    /\ documents = <<>>
    /\ embeddings = NoneArray
    /\ ixf = IdleIndex
    /\ srch = IdleSearch
    /\ last = NoCall
    /\ indexed = [status |-> "never", documents |-> <<>>, replaced |-> FALSE]

\* The module-level corpus is not touched by the class.
InitGlobalsUnused ==
    /\ g_documents = <<>>
    /\ doc_embeddings = ndarray(encode(<<>>))

Init == InitIndex /\ InitGlobalsUnused

Range(seq) == {seq[i] : i \in 1..Len(seq)}

\* History only: the call was handed a list that lacks a text the index held.
Replaces(self_documents, docs) == Range(self_documents) \ Range(docs) # {}

\* Appending to the list held instead of replacing it.
AppendDocuments(self_documents, docs) == self_documents \o docs

\* self.documents = documents: the value self.documents holds afterwards.
AssignDocuments(self_documents, docs) == docs

\* index_documents when model.encode raises: line 451 has already run, line
\* 452 assigns nothing. The pair <<self.documents, self.embeddings>> after it.
IndexFailedState(self_documents, self_embeddings, docs) ==
    <<AssignDocuments(self_documents, docs), self_embeddings>>

\* index_documents when model.encode returns.
IndexedState(self_documents, self_embeddings, docs) ==
    <<AssignDocuments(self_documents, docs), ndarray(encode(docs))>>

\* index_documents(documents) as one call.
index_documents(docs, embedderOk) ==
    /\ ixf.pc = "idle" /\ srch.pc = "idle" /\ last = NoCall
    /\ LET after == IF embedderOk
                    THEN IndexedState(documents, embeddings, docs)
                    ELSE IndexFailedState(documents, embeddings, docs)
       IN /\ documents' = after[1]
          /\ embeddings' = after[2]
    /\ indexed' = [status |-> IF embedderOk THEN "ok" ELSE "failed", documents |-> docs,
                   replaced |-> Replaces(documents, docs)]
    /\ last' = IF embedderOk
               THEN Outcome("index", "ok", None, 0, 0, <<>>, <<>>)
               ELSE Raised("index", "EmbeddingError", None, 0, 0)
    /\ UNCHANGED <<ixf, srch, g_documents, doc_embeddings>>

Index == \E docs \in DocSeqs, embedderOk \in BOOLEAN : index_documents(docs, embedderOk)

\* np.argsort(similarities)[::-1][:top_k], `order` being argsort's answer.
TopIndices(order, top_k) == Take(Reversed(order), top_k)

\* The element line 466 builds for idx: (self.documents[idx], similarities[idx]).
ResultPair(docs, similarities, idx) == <<At(docs, idx), At(similarities, idx)>>

\* Line 466 over a fixed self.documents: IndexError when an index is past the
\* end of the list, else the list of pairs.
Collect(op, docs, similarities, top_indices, query, top_k) ==
    IF \E i \in 1..Len(top_indices) : top_indices[i] >= Len(docs)
    THEN Raised(op, "IndexError", query, 0, top_k)
    ELSE Outcome(op, "ok", query, 0, top_k,
                 [i \in 1..Len(top_indices) |-> ResultPair(docs, similarities, top_indices[i])],
                 top_indices)

\* All outcomes of search(query, top_k) run without interruption on the state
\* <<docs, embs>>.
SearchOutcomes(docs, embs, query, top_k, embedderOk) ==
    IF ~embedderOk THEN {Raised("search", "EmbeddingError", query, 0, top_k)}
    ELSE IF embs.none THEN {Raised("search", "TypeError", query, 0, top_k)}
    ELSE LET similarities == Similarities(Vec(query), embs.rows) IN
         {Collect("search", docs, similarities, TopIndices(order, top_k), query, top_k) :
            order \in argsort(similarities)}

\* A search that keeps, as self.documents, only the documents it returns.
search_keeping_returned(query, top_k, embedderOk) ==
    /\ ixf.pc = "idle" /\ srch.pc = "idle" /\ last = NoCall
    /\ last' \in SearchOutcomes(documents, embeddings, query, top_k, embedderOk)
    /\ documents' = IF last'.status = "ok"
                    THEN [i \in 1..Len(last'.result) |-> last'.result[i][1]]
                    ELSE documents
    /\ UNCHANGED <<embeddings, ixf, srch, g_documents, doc_embeddings, indexed>>

\* search(query, top_k) as one call.
search(query, top_k, embedderOk) ==
    /\ ixf.pc = "idle" /\ srch.pc = "idle" /\ last = NoCall
    /\ last' \in SearchOutcomes(documents, embeddings, query, top_k, embedderOk)
    /\ UNCHANGED <<documents, embeddings, ixf, srch, g_documents, doc_embeddings, indexed>>

Search == \E query \in Texts, top_k \in 1..MaxTopK, embedderOk \in BOOLEAN :
             search(query, top_k, embedderOk)

\* The caller takes the value returned (or catches the exception) and goes on
\* to its next call.
Consume ==
    /\ last # NoCall
    /\ last' = NoCall
    /\ UNCHANGED <<documents, embeddings, ixf, srch, g_documents, doc_embeddings, indexed>>

Next == Index \/ Search \/ Consume

Spec == Init /\ [][Next]_vars

\* ---------------------------------------------------------------- properties of the class
SearchReturned == last.op = "search" /\ last.status = "ok"

\* The embedder answered the query: the search call got past line 458.
SearchRan == last.op = "search" /\ last.status # "EmbeddingError"

NonIncreasing(result) ==
    \A i \in 1..Len(result) : i < Len(result) => ScoreLe(result[i + 1][2], result[i][2])

\* C1: in every reachable state the stored embeddings have the length of the
\* stored documents, and the embedding at position i is the Embedder's vector
\* for the document at position i (None counting as an empty table).
C1_EmbeddingsMatchDocuments ==
    /\ Len(embeddings.rows) = Len(documents)
    /\ \A i \in 1..Len(documents) :
          i <= Len(embeddings.rows) => embeddings.rows[i] = Vec(documents[i])

\* C2: an index_documents call in which the Embedder fails leaves both
\* self.documents and self.embeddings exactly as they were before the call.
C2_FailedIndexLeavesPriorState ==
    [][(last'.op = "index" /\ last'.status = "EmbeddingError")
         => (documents' = documents /\ embeddings' = embeddings)]_vars

\* C3: on a non-empty corpus a search the Embedder answers returns exactly
\* min(top_k, |corpus|) results, in non-increasing order of score. The corpus
\* size is read as generously as the state allows: the number of stored
\* documents or the number of stored embeddings.
C3_SearchCountAndOrder ==
    (SearchRan /\ documents # <<>> /\ embeddings.rows # <<>>)
      => /\ last.status = "ok"
         /\ \/ Len(last.result) = Min(last.top_k, Len(documents))
            \/ Len(last.result) = Min(last.top_k, Len(embeddings.rows))
         /\ NonIncreasing(last.result)

\* C3 restricted to the states in which the most recent index_documents call
\* returned normally: there the count and the order are as claimed.
SearchCountAndOrderWhenIndexed ==
    (SearchRan /\ indexed.status = "ok" /\ documents # <<>>)
      => /\ last.status = "ok"
         /\ Len(last.result) = Min(last.top_k, Len(documents))
         /\ NonIncreasing(last.result)

\* C4: in a search result, of two documents with identical score the one with
\* the smaller corpus position comes first.
C4_TiesBySmallerPosition ==
    (SearchReturned /\ indexed.status = "ok")
      => \A i, j \in 1..Len(last.result) :
            (i < j /\ last.result[i][2] = last.result[j][2])
              => last.top_indices[i] < last.top_indices[j]

\* C5: a search the Embedder answers, on an index never indexed or indexed
\* with the empty sequence, returns the empty sequence and raises nothing.
C5_EmptySearchReturnsEmpty ==
    (SearchRan /\ (indexed.status = "never"
                     \/ (indexed.status = "ok" /\ indexed.documents = <<>>)))
      => (last.status = "ok" /\ last.result = <<>>)

\* C6: once index_documents(D2) has returned, the index holds exactly D2 (as
\* many documents and embeddings as D2 has), and every document a search
\* returns before the next index_documents call is an element of D2, whatever
\* the index held before.
C6_ReindexReplaces ==
    indexed.status = "ok"
      => /\ Len(documents) = Len(indexed.documents)
         /\ Len(embeddings.rows) = Len(indexed.documents)
         /\ SearchReturned
              => \A i \in 1..Len(last.result) : last.result[i][1] \in Range(indexed.documents)

\* C6 witness: a search returned documents after a re-index that dropped a
\* text the index held.
C6_Witness ==
    /\ SearchReturned /\ last.result # <<>>
    /\ indexed.status = "ok" /\ indexed.replaced

Parallel(a, b) == a[1] * b[2] = a[2] * b[1] /\ Dot(a, b) > 0

\* A top_k = 1 search for the text of a document of the sequence last indexed.
SelfSearch ==
    /\ SearchReturned /\ last.top_k = 1
    /\ indexed.status = "ok" /\ last.query \in Range(indexed.documents)

\* C10 as stated: searching for the text of an indexed document d with
\* top_k = 1 returns d as the sole result, with score 1.0.
C10_SelfSimilarityAsStated ==
    SelfSearch => last.result = << <<last.query, One>> >>

\* C10 as amended: the search returns exactly one result; when d's vector is
\* not the zero vector its score is 1.0 and the returned document's vector has
\* the direction of d's (d itself, or a document embedded parallel to d); when
\* d's vector is the zero vector the score is 0.
C10_SelfSimilarity ==
    SelfSearch =>
      /\ Len(last.result) = 1
      /\ IF Dot(Vec(last.query), Vec(last.query)) = 0
         THEN last.result[1][2] = Zero
         ELSE /\ last.result[1][2] = One
              /\ Parallel(Vec(last.result[1][1]), Vec(last.query))

\* C10 witness: a self-search on a corpus of two documents returned, with
\* score 1.0, the other document, whose vector is parallel to that of d.
C10_Witness ==
    /\ SelfSearch /\ Len(indexed.documents) = 2
    /\ Len(last.result) = 1
    /\ last.result[1][1] # last.query
    /\ last.result[1][2] = One

\* ---------------------------------------------------------------- find_most_similar
\* The module-level corpus: documents (lines 330-333) and
\* doc_embeddings = model.encode(documents) (line 388).
CorpusSeqs == UNION {[1..n -> DocTexts] : n \in 0..MaxCorpus}

\* Positions a caller may pass, from below -n to above n - 1.
Positions == (0 - MaxCorpus - 1)..(MaxCorpus + 1)

InitSim ==
    /\ InitIndex
    /\ g_documents \in CorpusSeqs
    /\ doc_embeddings = ndarray(encode(g_documents))

\* array[idx] on the first axis of an array of n rows: a negative idx counts
\* from the end; -1 stands for IndexError.
RowIndex(n, idx) ==
    IF 0 <= idx /\ idx < n THEN idx
    ELSE IF 0 - n <= idx /\ idx < 0 THEN idx + n
    ELSE -1

\* All outcomes of find_most_similar(doc_idx, top_k) on the array embs.
FindMostSimilarOutcomes(embs, doc_idx, top_k) ==
    LET row == RowIndex(Len(embs), doc_idx) IN
    IF row = -1 THEN {Raised("find_most_similar", "IndexError", None, doc_idx, top_k)}
    ELSE LET query_embedding == At(embs, row)
             similarities == Similarities(query_embedding, embs)
         IN {LET sorted_indices == Reversed(order)
                 top_indices == Take(Exclude(sorted_indices, doc_idx), top_k)
             IN Outcome("find_most_similar", "ok", None, doc_idx, top_k,
                        [i \in 1..Len(top_indices) |->
                            <<top_indices[i], At(similarities, top_indices[i])>>],
                        top_indices) :
               order \in argsort(similarities)}

find_most_similar(doc_idx, top_k) ==
    /\ last = NoCall
    /\ last' \in FindMostSimilarOutcomes(doc_embeddings.rows, doc_idx, top_k)
    /\ UNCHANGED <<documents, embeddings, ixf, srch, g_documents, doc_embeddings, indexed>>

FindMostSimilar == \E doc_idx \in Positions, top_k \in 1..MaxTopK :
                      find_most_similar(doc_idx, top_k)

NextSim == FindMostSimilar \/ Consume

SpecSim == InitSim /\ [][NextSim]_vars

SimReturned == last.op = "find_most_similar" /\ last.status = "ok"

ValidPosition(doc_idx) == 0 <= doc_idx /\ doc_idx < Len(doc_embeddings.rows)

\* C8: for a valid position p of a corpus of n documents and a positive
\* top_k, find_most_similar(p, top_k) returns no result at position p and at
\* most min(top_k, n - 1) results.
C8_MostSimilarExcludesSelf ==
    (last.op = "find_most_similar" /\ ValidPosition(last.doc_idx))
      => /\ last.status = "ok"
         /\ \A i \in 1..Len(last.result) : last.result[i][1] # last.doc_idx
         /\ Len(last.result) <= Min(last.top_k, Len(doc_embeddings.rows) - 1)

\* C8 witness: find_most_similar(0) on a 3-document corpus returned 2 results.
C8_Witness ==
    /\ SimReturned /\ last.doc_idx = 0
    /\ Len(doc_embeddings.rows) = 3 /\ Len(last.result) = 2

\* C9: find_most_similar with a position p < 0 or p >= n raises the
\* out-of-range error, returns no results and leaves the stored documents and
\* embeddings unchanged.
C9_OutOfRangeRaises ==
    [][(last'.op = "find_most_similar" /\ ~ValidPosition(last'.doc_idx))
         => /\ last'.status = "IndexError"
            /\ last'.result = <<>>
            /\ UNCHANGED <<g_documents, doc_embeddings, documents, embeddings>>]_vars

\* ---------------------------------------------------------------- index_documents beside search
\* One thread runs index_documents while another runs search, each step being
\* one read or write of self.documents / self.embeddings. The code takes no
\* lock. `last` is the searching caller's outcome; how the index_documents
\* call ended is kept in `indexed`.
\* index_documents, line 451: self.documents = documents.
ConcIndexAssign(docs) ==
    /\ ixf.pc = "idle"
    /\ documents' = AssignDocuments(documents, docs)
    /\ ixf' = [pc |-> "encode", documents |-> docs]
    /\ indexed' = [status |-> "running", documents |-> docs,
                   replaced |-> Replaces(documents, docs)]
    /\ UNCHANGED <<embeddings, srch, g_documents, doc_embeddings, last>>

\* index_documents, lines 452-453: model.encode returns and self.embeddings is
\* assigned, or model.encode raises.
ConcIndexEncode(embedderOk) ==
    /\ ixf.pc = "encode"
    /\ embeddings' = IF embedderOk THEN ndarray(encode(ixf.documents)) ELSE embeddings
    /\ ixf' = IdleIndex
    /\ indexed' = [indexed EXCEPT !.status = IF embedderOk THEN "ok" ELSE "failed"]
    /\ UNCHANGED <<documents, srch, g_documents, doc_embeddings, last>>

\* search, lines 458-465: the query is encoded, self.embeddings is read once
\* (the list comprehension iterates over the array it found), argsort runs.
ConcSearchScore(query, top_k, embedderOk) ==
    /\ srch.pc = "idle" /\ last = NoCall
    /\ IF ~embedderOk
       THEN last' = Raised("search", "EmbeddingError", query, 0, top_k) /\ srch' = srch
       ELSE IF embeddings.none
       THEN last' = Raised("search", "TypeError", query, 0, top_k) /\ srch' = srch
       ELSE /\ last' = last
            /\ LET similarities == Similarities(Vec(query), embeddings.rows) IN
               \E order \in argsort(similarities) :
                  srch' = [pc |-> "collect", query |-> query, top_k |-> top_k,
                           similarities |-> similarities,
                           top_indices |-> TopIndices(order, top_k), result |-> <<>>]
    /\ UNCHANGED <<documents, embeddings, ixf, g_documents, doc_embeddings, indexed>>

\* search, line 466: one element of the comprehension, which reads
\* self.documents anew for each idx; after the last one the list is returned.
ConcSearchCollect ==
    /\ srch.pc = "collect"
    /\ LET i == Len(srch.result) + 1 IN
       IF i > Len(srch.top_indices)
       THEN /\ last' = Outcome("search", "ok", srch.query, 0, srch.top_k,
                               srch.result, srch.top_indices)
            /\ srch' = IdleSearch
       ELSE IF srch.top_indices[i] >= Len(documents)
       THEN /\ last' = Raised("search", "IndexError", srch.query, 0, srch.top_k)
            /\ srch' = IdleSearch
       ELSE /\ last' = last
            /\ srch' = [srch EXCEPT !.result =
                          Append(@, ResultPair(documents, srch.similarities, srch.top_indices[i]))]
    /\ UNCHANGED <<documents, embeddings, ixf, g_documents, doc_embeddings, indexed>>

ConcIndex ==
    \/ \E docs \in DocSeqs : ConcIndexAssign(docs)
    \/ \E embedderOk \in BOOLEAN : ConcIndexEncode(embedderOk)

ConcSearch ==
    \/ \E query \in Texts, top_k \in 1..MaxTopK, embedderOk \in BOOLEAN :
          ConcSearchScore(query, top_k, embedderOk)
    \/ ConcSearchCollect

NextConc == ConcIndex \/ ConcSearch \/ Consume

SpecConc == Init /\ [][NextConc]_vars

\* C7: with index_documents running beside search, every (document, score)
\* pair a search returns comes from one table: the score is the similarity of
\* the query to the embedding of the very document it is paired with. Runs in
\* which the most recent index_documents call failed are left aside.
C7_NoTornTable ==
    (SearchReturned /\ indexed.status # "failed")
      => \A i \in 1..Len(last.result) :
            last.result[i][2] = pytorch_cos_sim(Vec(last.query), Vec(last.result[i][1]))

\* ---------------------------------------------------------------- the notebook's calls
\* The notebook as a whole: the module-level corpus with its doc_embeddings,
\* the search engine indexed with that same corpus (line 470), and the
\* read-only calls search and find_most_similar.
IndexGlobal == \E embedderOk \in BOOLEAN : index_documents(g_documents, embedderOk)

NextRead == IndexGlobal \/ Search \/ FindMostSimilar \/ Consume

\* The corpus is a list index_documents accepts.
InitRead ==
    /\ InitIndex
    /\ g_documents \in DocSeqs
    /\ doc_embeddings = ndarray(encode(g_documents))

SpecRead == InitRead /\ [][NextRead]_vars

Scores(result) == [i \in 1..Len(result) |-> result[i][2]]

\* Every outcome the same call can have on the state it left has the status
\* and the scores of `outcome`.
Repeatable(outcome, outcomes) ==
    \A again \in outcomes :
        again.status = outcome.status /\ Scores(again.result) = Scores(outcome.result)

\* C11: search and find_most_similar are read-only. Whether the call returns
\* or raises, the stored documents and embeddings (of the search engine and
\* of the module) are after the call what they were before it; hence the same
\* call repeated on the state it left has the same status and returns the
\* same scores in the same order (the Embedder answering as before).
C11_QueriesAreReadOnly ==
    [][/\ last'.op \in {"search", "find_most_similar"}
          => UNCHANGED <<documents, embeddings, g_documents, doc_embeddings>>
       /\ (last'.op = "search" /\ last'.status # "EmbeddingError")
          => Repeatable(last', SearchOutcomes(documents', embeddings', last'.query,
                                              last'.top_k, TRUE))
       /\ last'.op = "find_most_similar"
          => Repeatable(last', FindMostSimilarOutcomes(doc_embeddings'.rows,
                                                       last'.doc_idx, last'.top_k))]_vars

\* C11 witness: a search on an indexed corpus returned two documents of equal
\* score, after which the index holds the documents and embeddings indexed.
C11_Witness ==
    /\ SearchReturned /\ indexed.status = "ok"
    /\ Len(last.result) >= 2 /\ last.result[1][2] = last.result[2][2]
    /\ documents = indexed.documents /\ embeddings = ndarray(encode(documents))

\* ---------------------------------------------------------------- the caller's list
\* index_documents keeps the list object it is handed (line 451 assigns the
\* reference, no copy is made). Here the search engine is only ever handed
\* the module-level list `documents`, a name never rebound, so from the first
\* index_documents call on self.documents and `documents` are one object.
SameList == indexed.status # "never"

\* A write to the module-level list object, seen through every reference.
ListWrite(new) ==
    /\ ixf.pc = "idle" /\ srch.pc = "idle" /\ last = NoCall
    /\ g_documents' = new
    /\ documents' = IF SameList THEN new ELSE documents
    /\ UNCHANGED <<embeddings, ixf, srch, doc_embeddings, last, indexed>>

\* documents.append(doc)
CallerAppend == \E doc \in DocTexts :
    /\ Len(g_documents) < MaxLen
    /\ ListWrite(Append(g_documents, doc))

\* del documents[i]
CallerRemove == \E i \in 1..Len(g_documents) :
    ListWrite([j \in 1..(Len(g_documents) - 1) |->
                  IF j < i THEN g_documents[j] ELSE g_documents[j + 1]])

\* documents[i] = doc
CallerOverwrite == \E i \in 1..Len(g_documents), doc \in DocTexts :
    /\ g_documents[i] # doc
    /\ ListWrite([g_documents EXCEPT ![i] = doc])

NextAlias == CallerAppend \/ CallerRemove \/ CallerOverwrite
               \/ IndexGlobal \/ Search \/ Consume

SpecAlias == Init /\ [][NextAlias]_vars

\* C12: once index_documents(D) has returned, whatever the caller then does
\* to the list it passed, the stored documents are D as it was at the time of
\* the call and are as many as the stored embeddings.
C12_IndexedCorpusIsImmutable ==
    indexed.status = "ok"
      => /\ documents = indexed.documents
         /\ Len(documents) = Len(embeddings.rows)

====
